---- MODULE Spec2Model ----
(***************************************************************************)
(* Model of the piano transcription core of HarmoniQ-AI                    *)
(* (src/piano_extraction.py): the frequency mask of                        *)
(* extract_piano_from_audio, the pitch mapper _frequency_to_note, the      *)
(* note segmenter, post-filter and duration quantizer of                   *)
(* extract_notes_from_piano_audio, the MIDI encoder notes_to_midi, the     *)
(* notation renderers and process_audio_to_piano_sheet, and the tool       *)
(* extract_piano_from_audio of src/music_tools.py that calls it.           *)
(*                                                                         *)
(* Units.                                                                  *)
(*   Time is an integer number of microseconds.                            *)
(*   A positive frequency f is represented by its distance from A4 in      *)
(*   cents, k = 1200 * log2(f / 440), on the grid of integer k; so         *)
(*   12 * log2(f / 440) is k / 100, doubling f adds 1200 and the cents     *)
(*   distance of two frequencies is the difference of their k.  NonPositive*)
(*   stands for every frequency f <= 0.  A threshold of x Hz in the code   *)
(*   becomes the grid point next to 1200 * log2(x / 440).                  *)
(*   A time in beats is an integer number of 1/60000000 beat: t seconds at *)
(*   a tempo of b beats per minute are t * b / 60 beats, the product of    *)
(*   the microseconds and b in that unit.                                  *)
(***************************************************************************)
EXTENDS Integers, Sequences, FiniteSets, TLC

VARIABLES
    pc,                       \* position of the call that is modelled
    frequency,                \* argument of _frequency_to_note
    mapped,                   \* its return value
    duration,                 \* a measured duration handed to the quantizer
    quantized,                \* quantizer applied once
    requantized,              \* quantizer applied to its own result
    hop,                      \* hop_length / sr, the time between two frames
    f0,                       \* per-frame pitch track from pyin: f0 and voiced_flag
    i,                        \* number of frames the loop has consumed
    current_note,
    current_note_start_idx,
    current_note_start_time,
    notes,
    filtered_notes,
    quantized_notes,
    tempo,                    \* beats per minute
    midi_input,               \* the notes handed to notes_to_midi
    midi_events,              \* the addNote calls, in order
    tempo_events,             \* the addTempo calls, in order
    env,                      \* which optional libraries and programs exist
    files,                    \* the files of output_dir: absent, empty or nonempty
    log,                      \* the steps and renderers started, in order
    renderer_run,             \* the last call of musicxml_to_pdf
    synthesized_audio_path,
    manifest,                 \* what process_audio_to_piano_sheet returned
    error,                    \* the message of the exception it raised
    tool_result,              \* what extract_piano_from_audio returned
    inv,                      \* concurrent invocations of the tool
    dirs,                     \* the directories mkdtemp has created
    written,                  \* who wrote which path
    stft_filtered             \* per frequency bin, the gain the mask has applied

vars == <<pc, frequency, mapped, duration, quantized, requantized, hop, f0, i,
          current_note, current_note_start_idx, current_note_start_time,
          notes, filtered_notes, quantized_notes,
          tempo, midi_input, midi_events, tempo_events,
          env, files, log, renderer_run, synthesized_audio_path, manifest,
          error, tool_result, inv, dirs, written, stft_filtered>>

mapVars == <<frequency, mapped>>
quantVars == <<duration, quantized, requantized>>
segVars == <<hop, f0, i, current_note, current_note_start_idx,
             current_note_start_time, notes, filtered_notes, quantized_notes>>
midiVars == <<tempo, midi_input, midi_events, tempo_events>>
pipeVars == <<env, files, log, renderer_run, synthesized_audio_path, manifest,
              error, tool_result>>
toolVars == <<inv, dirs, written>>
maskVars == <<stft_filtered>>
restVars == <<midiVars, pipeVars, toolVars, maskVars>>

----------------------------------------------------------------------------
(* Program constants *)

NOTE_NAMES == <<"C", "C#", "D", "D#", "E", "F", "F#", "G", "G#", "A", "A#", "B">>

\* frequency <= 0 (no logarithm); below every grid point
NonPositive == -100000

\* smallest grid point at or above 60 Hz (effective_fmin): 1200*log2(60/440) = -3449.36
Hz60 == -3449
\* largest grid point at or below 2000 Hz (effective_fmax): 1200*log2(2000/440) = 2621.31
Hz2000 == 2621
\* smallest grid point at or above 65 Hz: 1200*log2(65/440) = -3310.79
Hz65 == -3310
\* smallest grid point at or above 32 Hz: 1200*log2(32/440) = -4537.63
Hz32 == -4537
\* largest grid point at or below 4186 Hz: 1200*log2(4186/440) = 3899.996
Hz4186 == 3899
\* smallest grid point at or above 30 Hz: 1200*log2(30/440) = -4649.36
Hz30 == -4649
\* frequency * 2.0
Octave == 1200

\* min_note_duration = 0.1 s
min_note_duration == 100000
\* min_onset_gap = 0.05 s
min_onset_gap == 50000
\* standard_durations, in list order
standard_durations == <<4000000, 2000000, 1000000, 500000, 250000, 125000, 62500>>

\* (None, None)
NoNote == [name |-> "None", octave |-> -1]

----------------------------------------------------------------------------
(* Pitch mapper: PianoExtractor._frequency_to_note *)

Abs(x) == IF x < 0 THEN -x ELSE x

\* round(12 * log2(frequency / 440)) = round(k / 100), Python's round
\* (to nearest, an exact half to the even neighbour)
Round100(k) ==
    LET lo == k \div 100
        r  == k % 100
    IN  IF r < 50 THEN lo
        ELSE IF r > 50 THEN lo + 1
        ELSE IF lo % 2 = 0 THEN lo ELSE lo + 1

\* lines 408-413: octave from semitones_from_C4, with // as Python's floor
\* division ("proper floor division that works for both positive and negative")
OctaveFromC4(semitones_from_C4) ==
    IF semitones_from_C4 >= 0
    THEN 4 + semitones_from_C4 \div 12
    ELSE 4 + (semitones_from_C4 - 11) \div 12

\* lines 433-436 in a variant without the lower test
OctaveRejectedAbove(octave) == octave > 8

\* lines 433-436: "if octave < 0 or octave > 8: return None, None"
OctaveRejected(octave) == octave < 0 \/ octave > 8

\* line 418-421: the subharmonic correction is taken
SubharmonicCorrection(freq, octave) ==
    /\ octave < 1
    /\ freq < Hz65
    /\ Hz32 <= freq + Octave
    /\ freq + Octave <= Hz4186

FrequencyToNote(freq) ==
    IF freq = NonPositive THEN NoNote                       \* lines 386-387
    ELSE
    LET semitones_rounded == Round100(freq)                  \* lines 394-395
        note_index0 == (semitones_rounded + 9) % 12          \* line 400
        octave0 == OctaveFromC4(semitones_rounded + 9)       \* lines 405-413
        corrected == SubharmonicCorrection(freq, octave0)    \* lines 418-421
        doubled_freq == freq + Octave
        semitones_rounded_doubled == Round100(doubled_freq)
        note_index == IF corrected
                      THEN (semitones_rounded_doubled + 9) % 12   \* line 425
                      ELSE note_index0
        octave1 == IF corrected
                   THEN OctaveFromC4(semitones_rounded_doubled + 9) \* 426-430
                   ELSE octave0
        freq1 == IF corrected THEN doubled_freq ELSE freq     \* line 431
    IN  IF OctaveRejected(octave1) THEN NoNote               \* lines 435-436
        ELSE
        LET low == freq1 < Hz30 /\ octave1 >= 1               \* line 440
            octave2 == IF low THEN octave1 - 1 ELSE octave1   \* line 442
        IN  IF low /\ octave2 < 0 THEN NoNote                 \* lines 443-444
            ELSE [name |-> NOTE_NAMES[note_index + 1], octave |-> octave2]

----------------------------------------------------------------------------
(* Duration quantizer: lines 366-371 of extract_notes_from_piano_audio *)

\* min(standard_durations, key=lambda x: abs(x - duration)): the first
\* element of the list at minimal distance
RECURSIVE NearestFrom(_, _, _)
NearestFrom(d, k, best) ==
    IF k > Len(standard_durations) THEN best
    ELSE NearestFrom(d, k + 1,
                     IF Abs(standard_durations[k] - d) < Abs(best - d)
                     THEN standard_durations[k] ELSE best)

Nearest(d) == NearestFrom(d, 2, standard_durations[1])

\* line 371 in a variant that keeps the shrunken value
KeepShrunken(d) == (7 * d) \div 10

\* line 371: "quantized_duration = duration  # Keep original"
KeepOriginal(d) == d

\* line 370 in a variant with the factor 0.5
TooShortHalf(q, d) == 10 * q < 5 * d

\* line 370: quantized_duration < duration * 0.7
TooShort(q, d) == 10 * q < 7 * d

Quantize(d) ==
    LET quantized_duration == Nearest(d)
    IN  IF TooShort(quantized_duration, d) THEN KeepOriginal(d)
        ELSE quantized_duration

----------------------------------------------------------------------------
(* Values of the variables a specification does not use *)

None == [time |-> -1, note_name |-> "None", octave |-> -1, frequency |-> 0,
         duration |-> 0]

MapIdle == frequency = NonPositive /\ mapped = NoNote
QuantIdle == duration = 0 /\ quantized = 0 /\ requantized = 0
SegIdle ==
    /\ hop = 0 /\ f0 = <<>> /\ i = 0
    /\ current_note = None
    /\ current_note_start_idx = -1
    /\ current_note_start_time = -1
    /\ notes = <<>> /\ filtered_notes = <<>> /\ quantized_notes = <<>>

NoEnv == [none |-> TRUE]
NoFiles == [none |-> TRUE]
NoRun == [called |-> FALSE]
NoManifest == [none |-> TRUE]
NoResult == [pending |-> TRUE]

MidiIdle == tempo = 0 /\ midi_input = <<>> /\ midi_events = <<>> /\ tempo_events = <<>>
PipeIdle ==
    /\ env = NoEnv /\ files = NoFiles /\ log = <<>> /\ renderer_run = NoRun
    /\ synthesized_audio_path = "None" /\ manifest = NoManifest
    /\ error = "" /\ tool_result = NoResult
ToolIdle == inv = <<>> /\ dirs = {} /\ written = {}
MaskIdle == stft_filtered = <<>>
RestIdle == MidiIdle /\ PipeIdle /\ ToolIdle /\ MaskIdle

----------------------------------------------------------------------------
(* SpecMap: _frequency_to_note applied to every frequency of a range *)

\* the range of frequencies tried: CentsBelow cents under A4 (9.2 Hz) to
\* CentsAbove cents over it (9.96 kHz), and a non-positive frequency
CentsBelow == 6700
CentsAbove == 5400
Frequencies == ((0 - CentsBelow) .. CentsAbove) \cup {NonPositive}

InitMap ==
    /\ pc = "map"
    /\ frequency \in Frequencies
    /\ mapped = NoNote
    /\ QuantIdle /\ SegIdle /\ RestIdle

MapCall ==
    /\ pc = "map"
    /\ mapped' = FrequencyToNote(frequency)
    /\ pc' = "mapped"
    /\ UNCHANGED <<frequency, quantVars, segVars, restVars>>

NextMap == MapCall

SpecMap == InitMap /\ [][NextMap]_vars

----------------------------------------------------------------------------
(* SpecQuant: the quantizer applied to a duration, then to its own result *)

\* durations tried: the multiples of DurationStep up to MaxDurationSteps of them
DurationStep == 2500
MaxDurationSteps == 2800
Durations == {k * DurationStep : k \in 1 .. MaxDurationSteps}

InitQuant ==
    /\ pc = "quantize"
    /\ duration \in Durations
    /\ quantized = 0 /\ requantized = 0
    /\ MapIdle /\ SegIdle /\ RestIdle

QuantizeOnce ==
    /\ pc = "quantize"
    /\ quantized' = Quantize(duration)
    /\ pc' = "quantized"
    /\ UNCHANGED <<duration, requantized, mapVars, segVars, restVars>>

QuantizeAgain ==
    /\ pc = "quantized"
    /\ requantized' = Quantize(quantized)
    /\ pc' = "requantized"
    /\ UNCHANGED <<duration, quantized, mapVars, segVars, restVars>>

NextQuant == QuantizeOnce \/ QuantizeAgain

SpecQuant == InitQuant /\ [][NextQuant]_vars

----------------------------------------------------------------------------
(* Note segmenter: PianoExtractor.extract_notes_from_piano_audio *)

\* a frame of the pitch track: f0[i] (nan, or freq in cents) and voiced_flag[i]
Frame(isnan, isvoiced, cents) == [nan |-> isnan, voiced |-> isvoiced, freq |-> cents]

\* times[idx] = librosa.frames_to_time(idx), idx counted from 0 (line 228)
Times(idx) == idx * hop

\* line 241 in a variant without the test of voiced_flag[i]
ValidFrameAnyVoicing(fr) ==
    /\ ~fr.nan
    /\ Hz60 <= fr.freq
    /\ fr.freq <= Hz2000

\* line 241 in a variant without the test against effective_fmin
ValidFrameNoFloor(fr) ==
    /\ ~fr.nan
    /\ fr.voiced
    /\ fr.freq <= Hz2000

\* line 241: "not np.isnan(freq) and voiced_flag[i] and
\*            effective_fmin <= freq <= effective_fmax"
ValidFrame(fr) ==
    /\ ~fr.nan
    /\ fr.voiced
    /\ Hz60 <= fr.freq
    /\ fr.freq <= Hz2000

\* the frame is passed over by "continue" or by a false "if note_name:"
Skip == [kind |-> "skip", note_name |-> "None", octave |-> -1, freq |-> 0]

\* the frame takes the else branch of line 296
Invalid == [kind |-> "invalid", note_name |-> "None", octave |-> -1, freq |-> 0]

Pitch(note_name, octave, freq) ==
    [kind |-> "pitch", note_name |-> note_name, octave |-> octave, freq |-> freq]

\* lines 266-267: "if octave > 7: continue"
AboveRange(octave) == octave > 7

\* lines 242-267: the pitch a valid frame resolves to
FramePitch(freq) ==
    LET m == FrequencyToNote(freq)                            \* line 242
        doubled_freq == freq + Octave                         \* line 250
        md == FrequencyToNote(doubled_freq)                   \* line 252
    IN  IF m.name = "None" THEN Skip                          \* line 244
        ELSE IF m.octave < 1                                  \* line 248
        THEN IF Hz60 <= doubled_freq /\ doubled_freq <= Hz2000    \* line 251
             THEN IF md.name # "None" /\ 1 <= md.octave /\ md.octave <= 7
                  THEN IF AboveRange(md.octave) THEN Skip
                       ELSE Pitch(md.name, md.octave, doubled_freq)  \* 255-257
                  ELSE Skip                                   \* line 260
             ELSE Skip                                        \* line 263
        ELSE IF AboveRange(m.octave) THEN Skip                \* line 267
        ELSE Pitch(m.name, m.octave, freq)

\* lines 277-279 in a variant without the comparison of name and octave
ContinuesNear(cur, p) ==
    /\ cur # None
    /\ Abs(p.freq - cur.frequency) < 50

\* lines 270-281: the frame continues the held note; cents_diff is the
\* difference of the two frequencies in cents
Continues(cur, p) ==
    /\ cur # None
    /\ Abs(p.freq - cur.frequency) < 50
    /\ cur.note_name = p.note_name
    /\ cur.octave = p.octave

\* line 286 in a variant that tests against min_onset_gap
LongEnoughForGap(d) == d >= min_onset_gap

\* lines 286, 300, 313: "if duration >= min_note_duration"
LongEnough(d) == d >= min_note_duration

\* lines 284-290, 298-303, 309-316: the held note closed at end_time,
\* appended to ns when it lasted long enough
Closed(ns, cur, start_idx, start_time, end_time) ==
    IF cur # None /\ start_idx # -1
    THEN IF LongEnough(end_time - start_time)
         THEN Append(ns, [cur EXCEPT !.duration = end_time - start_time])
         ELSE ns
    ELSE ns

\* lines 319: notes.sort(key=lambda x: x[0]), a stable sort
RECURSIVE InsertByTime(_, _)
InsertByTime(sorted, n) ==
    IF sorted = <<>> THEN <<n>>
    ELSE IF sorted[Len(sorted)].time <= n.time THEN Append(sorted, n)
    ELSE Append(InsertByTime(SubSeq(sorted, 1, Len(sorted) - 1), n),
                sorted[Len(sorted)])

RECURSIVE SortFrom(_, _, _)
SortFrom(ns, k, acc) ==
    IF k > Len(ns) THEN acc ELSE SortFrom(ns, k + 1, InsertByTime(acc, ns[k]))

SortByTime(ns) == SortFrom(ns, 1, <<>>)

\* lines 332-334 in a variant that measures from the end of the previous note
TimeGapFromEnd(prev, note) == note.time - (prev.time + prev.duration)

\* lines 332-334: time_gap = current_time - prev_time, onset to onset
TimeGap(prev, note) == note.time - prev.time

\* lines 326-357: the post-filter, one note at a time
RECURSIVE PostFilterFrom(_, _, _)
PostFilterFrom(ns, k, filtered) ==
    IF k > Len(ns) THEN filtered
    ELSE IF k = 1 THEN PostFilterFrom(ns, 2, <<ns[1]>>)           \* 327-329
    ELSE
    LET note == ns[k]
        prev == filtered[Len(filtered)]
        time_gap == TimeGap(prev, note)
        is_same_note == prev.note_name = note.note_name /\ prev.octave = note.octave
        new_end_time == note.time + note.duration                \* line 354
        extended == [prev EXCEPT !.duration = new_end_time - prev.time]
    IN  IF time_gap >= min_onset_gap \/ ~is_same_note            \* line 348
        THEN PostFilterFrom(ns, k + 1, Append(filtered, note))
        ELSE PostFilterFrom(ns, k + 1,                           \* 351-357
                 [filtered EXCEPT ![Len(filtered)] = extended])

PostFilter(ns) == PostFilterFrom(ns, 1, <<>>)

\* lines 360-373
QuantizeAll(ns) == [k \in 1 .. Len(ns) |-> [ns[k] EXCEPT !.duration = Quantize(ns[k].duration)]]

\* lines 241-267 in a variant that takes the mapper's pitch of every voiced
\* frame as it is, without the frequency and octave filters
ResolveUnfiltered(fr) ==
    IF fr.nan \/ ~fr.voiced THEN Invalid
    ELSE LET m == FrequencyToNote(fr.freq)
         IN  IF m.name = "None" THEN Skip ELSE Pitch(m.name, m.octave, fr.freq)

\* lines 241-267: what the loop makes of a frame: "invalid" (the else branch
\* of line 296), "skip" (passed over) or the "pitch" it resolves to
Resolve(fr) == IF ValidFrame(fr) THEN FramePitch(fr.freq) ELSE Invalid

\* lines 238-306: one iteration of the frame loop
ProcessFrame ==
    /\ pc = "loop"
    /\ i < Len(f0)
    /\ LET time == Times(i)
           p == Resolve(f0[i + 1])
       IN  IF p.kind # "invalid"
           THEN IF p.kind = "skip" \/ Continues(current_note, p)
                THEN UNCHANGED <<current_note, current_note_start_idx,
                                 current_note_start_time, notes>>
                ELSE /\ notes' = Closed(notes, current_note, current_note_start_idx,
                                        current_note_start_time, time)
                     /\ current_note' = [time |-> time, note_name |-> p.note_name,
                                         octave |-> p.octave, frequency |-> p.freq,
                                         duration |-> 0]
                     /\ current_note_start_idx' = i
                     /\ current_note_start_time' = time
           ELSE IF current_note # None /\ current_note_start_idx # -1
                THEN /\ notes' = Closed(notes, current_note, current_note_start_idx,
                                        current_note_start_time, time)
                     /\ current_note' = None
                     /\ current_note_start_idx' = -1
                     /\ current_note_start_time' = -1
                ELSE UNCHANGED <<current_note, current_note_start_idx,
                                 current_note_start_time, notes>>
    /\ i' = i + 1
    /\ UNCHANGED <<pc, hop, f0, filtered_notes, quantized_notes, mapVars, quantVars,
                   restVars>>

\* line 311: "times[-1] + (times[1] - times[0]) if len(times) > 1 else
\*            times[-1]", for len(times) = len > 0
FinalTime(len) ==
    IF len > 1 THEN Times(len - 1) + (Times(1) - Times(0)) ELSE Times(len - 1)

\* lines 308-375: the last note, the sort, the post-filter and the quantizer
Finish ==
    /\ pc = "loop"
    /\ i = Len(f0)
    /\ LET flushed == IF Len(f0) > 0                              \* line 310
                      THEN Closed(notes, current_note, current_note_start_idx,
                                  current_note_start_time, FinalTime(Len(f0)))
                      ELSE notes
           sorted == SortByTime(flushed)
       IN  /\ notes' = sorted
           /\ filtered_notes' = PostFilter(sorted)
           /\ quantized_notes' = QuantizeAll(PostFilter(sorted))
    /\ pc' = "done"
    /\ UNCHANGED <<hop, f0, i, current_note, current_note_start_idx,
                   current_note_start_time, mapVars, quantVars, restVars>>

Next == ProcessFrame \/ Finish

SegStart ==
    /\ pc = "loop"
    /\ i = 0
    /\ current_note = None
    /\ current_note_start_idx = -1
    /\ current_note_start_time = -1
    /\ notes = <<>> /\ filtered_notes = <<>> /\ quantized_notes = <<>>
    /\ MapIdle /\ QuantIdle
    /\ RestIdle

\* hop_length / sr with the defaults hop_length = 1024 and sr = 16000
DefaultHop == 64000

Unvoiced == Frame(TRUE, FALSE, 0)
Voiced(cents) == Frame(FALSE, TRUE, cents)

\* Spec: every pitch track of at most MaxFrames frames over these frames:
\* an unvoiced frame (f0 is nan), a frame with a pitch (A3) but no voicing
\* flag, A3 40 cents flat (-1240) and A3 40 cents sharp (-1160), C4 (-900),
\* and C8 (3900 cents, 4186 Hz, above effective_fmax)
MaxFrames == 5
HighFrame == Voiced(3900)
Frames == {Unvoiced, Frame(FALSE, FALSE, -1200), Voiced(-1240), Voiced(-1160),
           Voiced(-900), HighFrame}
Tracks == UNION {[1 .. n -> Frames] : n \in 0 .. MaxFrames}

Init ==
    /\ hop = DefaultHop
    /\ f0 \in Tracks
    /\ SegStart

Spec == Init /\ [][Next]_vars

----------------------------------------------------------------------------
(* SpecHeld: the pitch track of A3 (220 Hz, -1200 cents) voiced for 2 s and *)
(* then unvoiced for 1 s, at hop_length 256, 512 and 1024 (sr = 16000)      *)

HeldHops == {16000, 32000, 64000}

\* the frames at times 0, h, 2h, ... below 3 s; voiced while the time is below 2 s
HeldTrack(h) ==
    [k \in 1 .. ((3000000 + h - 1) \div h) |->
        IF (k - 1) * h < 2000000 THEN Voiced(-1200) ELSE Unvoiced]

InitHeld ==
    /\ hop \in HeldHops
    /\ f0 = HeldTrack(hop)
    /\ SegStart

SpecHeld == InitHeld /\ [][Next]_vars

----------------------------------------------------------------------------
(* SpecDropout: two voiced runs of C4 (-900 cents) separated by 30 ms of    *)
(* unvoiced frames, at hop_length 240 and 480 (sr = 16000), each run at     *)
(* least 100 ms long, followed by at most one unvoiced frame                *)

DropoutHops == {15000, 30000}

\* the shortest run, in frames, that lasts min_note_duration
MinRun(h) == (min_note_duration + h - 1) \div h

\* runs of MinRun(h) to MinRun(h) + RunSlack frames
RunSlack == 2

Repeat(fr, n) == [k \in 1 .. n |-> fr]

DropoutTrack(h, n1, n2, tail) ==
    Repeat(Voiced(-900), n1) \o Repeat(Unvoiced, 30000 \div h)
        \o Repeat(Voiced(-900), n2) \o Repeat(Unvoiced, tail)

InitDropout ==
    /\ hop \in DropoutHops
    /\ \E n1, n2 \in MinRun(hop) .. MinRun(hop) + RunSlack : \E tail \in 0 .. 1 :
           f0 = DropoutTrack(hop, n1, n2, tail)
    /\ SegStart

SpecDropout == InitDropout /\ [][Next]_vars

----------------------------------------------------------------------------
(* SpecContinue: every pitch track of at most MaxFrames frames over an      *)
(* unvoiced frame and four voiced frames around A3: 50 cents flat (-1250),  *)
(* A3 (-1200), 49 cents sharp (-1151, still A) and 51 cents sharp (-1149,   *)
(* the mapper's A#)                                                         *)

ContinueFrames == {Unvoiced, Voiced(-1250), Voiced(-1200), Voiced(-1151), Voiced(-1149)}

InitContinue ==
    /\ hop = DefaultHop
    /\ f0 \in UNION {[1 .. n -> ContinueFrames] : n \in 0 .. MaxFrames}
    /\ SegStart

SpecContinue == InitContinue /\ [][Next]_vars

----------------------------------------------------------------------------
(* SpecSubharmonic: every pitch track of at most MaxFrames frames over an   *)
(* unvoiced frame, two voiced frames that the mapper puts into octave 0     *)
(* (24.5 Hz, and 29.97 Hz, the highest such grid point), the lowest frame   *)
(* of the effective range (60 Hz) and A3                                    *)

SubharmonicFrames == {Unvoiced, Voiced(-5000), Voiced(-4651), Voiced(Hz60), Voiced(-1200)}

InitSubharmonic ==
    /\ hop = DefaultHop
    /\ f0 \in UNION {[1 .. n -> SubharmonicFrames] : n \in 0 .. MaxFrames}
    /\ SegStart

SpecSubharmonic == InitSubharmonic /\ [][Next]_vars

----------------------------------------------------------------------------
(* SpecFlush: every pitch track of at most MaxFrames frames over an         *)
(* unvoiced frame, A3 and C4, at hops of 64 ms (hop_length 1024 at          *)
(* sr = 16000) and 128 ms (hop_length 1024 at sr = 8000)                    *)

FlushFrames == {Unvoiced, Voiced(-1200), Voiced(-900)}
FlushHops == {DefaultHop, 2 * DefaultHop}

InitFlush ==
    /\ hop \in FlushHops
    /\ f0 \in UNION {[1 .. n -> FlushFrames] : n \in 0 .. MaxFrames}
    /\ SegStart

SpecFlush == InitFlush /\ [][Next]_vars

----------------------------------------------------------------------------
(* SpecSustain: one pitch (A3 or C4) voiced for 1 to MaxHeldFrames frames   *)
(* at the default hop, followed by at most one unvoiced frame               *)

MaxHeldFrames == 120

SustainTrack(cents, n, tail) == Repeat(Voiced(cents), n) \o Repeat(Unvoiced, tail)

InitSustain ==
    /\ hop = DefaultHop
    /\ \E cents \in {-1200, -900} : \E n \in 1 .. MaxHeldFrames : \E tail \in 0 .. 1 :
           f0 = SustainTrack(cents, n, tail)
    /\ SegStart

SpecSustain == InitSustain /\ [][Next]_vars

----------------------------------------------------------------------------
(* The MIDI encoder notes_to_midi *)

Max(a, b) == IF a >= b THEN a ELSE b
Min(a, b) == IF a <= b THEN a ELSE b

\* one beat in the unit of beat times: x * tempo / 60.0 for x in seconds
Beat == 60 * 1000000

\* lines 515-518
note_to_midi ==
    ("C" :> 0) @@ ("C#" :> 1) @@ ("D" :> 2) @@ ("D#" :> 3) @@ ("E" :> 4) @@
    ("F" :> 5) @@ ("F#" :> 6) @@ ("G" :> 7) @@ ("G#" :> 8) @@ ("A" :> 9) @@
    ("A#" :> 10) @@ ("B" :> 11)

\* lines 525-530 in a variant that also passes over the octaves 1 and 2
OutsideMidiOctavesFrom3(octave) == octave < 3 \/ octave > 7

\* lines 525-530 in a variant without the test of line 528
OutsideMidiOctavesBelow(octave) == octave < 1

\* lines 525-530: the notes the encoder passes over
OutsideMidiOctaves(octave) == octave < 1 \/ octave > 7

\* line 553 in a variant without the upper limit
ClampDurationBelow(duration_beat) == Max(Beat \div 8, duration_beat)

\* line 553: duration_beat = max(0.125, min(duration_beat, 16.0))
ClampDuration(duration_beat) == Max(Beat \div 8, Min(duration_beat, 16 * Beat))

\* lines 520-557: the addNote calls of one iteration
NoteEvents(note, bpm) ==
    IF OutsideMidiOctaves(note.octave) THEN <<>>
    ELSE LET time_beat == note.time * bpm                                 \* 533
             midi_note == Max(24, Min(108,
                              (note.octave + 1) * 12 + note_to_midi[note.note_name]))
             duration_beat == ClampDuration(note.duration * bpm)          \* 549-553
         IN  IF time_beat >= 0 /\ duration_beat > 0                       \* 556
             THEN <<[pitch |-> midi_note, time |-> time_beat,
                     duration |-> duration_beat, volume |-> 100]>>
             ELSE <<>>

RECURSIVE AddNotes(_, _, _)
AddNotes(ns, k, bpm) ==
    IF k > Len(ns) THEN <<>> ELSE NoteEvents(ns[k], bpm) \o AddNotes(ns, k + 1, bpm)

\* lines 504-564: the call, given whether midiutil was imported and what
\* writing the file does ("written", or it fails leaving "absent" or "empty")
NotesToMidi(ns, bpm, available, write) ==
    IF ~available
    THEN [ok |-> FALSE, error |-> "midiutil is required", events |-> <<>>,
          tempos |-> <<>>, file |-> "absent"]
    ELSE IF write # "written"
    THEN [ok |-> FALSE, error |-> "Error creating MIDI file", events |-> <<>>,
          tempos |-> <<>>, file |-> write]
    ELSE [ok |-> TRUE, error |-> "", events |-> AddNotes(ns, 1, bpm),
          tempos |-> <<[time |-> 0, tempo |-> bpm]>>, file |-> "nonempty"]

WriteOutcomes == {"written", "absent", "empty"}

\* the files of output_dir
FileKinds == {"piano_audio", "midi", "musicxml", "pdf", "synthesized_audio"}
EmptyDir == [k \in FileKinds |-> "absent"]

\* the optional libraries (the *_AVAILABLE flags of lines 14-52), the MuseScore
\* executable, and what the tool checks before it starts
Envs == [extractor : BOOLEAN, audio : BOOLEAN, midiutil : BOOLEAN,
         pretty_midi : BOOLEAN, music21 : BOOLEAN, reportlab : BOOLEAN,
         musescore : BOOLEAN]
AllAvailable == [extractor |-> TRUE, audio |-> TRUE, midiutil |-> TRUE,
                 pretty_midi |-> TRUE, music21 |-> TRUE, reportlab |-> TRUE,
                 musescore |-> TRUE]

\* the tempos tried: the ends and the middle (the default) of the range 60-180
Tempos == {60, 120, 180}

----------------------------------------------------------------------------
(* SpecMidi: notes_to_midi applied to every list of at most MaxMidiNotes    *)
(* notes: C or B, of octave 0, 1, 7 or 8, at 0 s or 0.5 s, lasting 62.5 ms, *)
(* 1 s or 6.4 s                                                             *)

MaxMidiNotes == 2

MidiNotes ==
    {[time |-> t, note_name |-> n, octave |-> o, frequency |-> 0, duration |-> d] :
        t \in {0, 500000}, n \in {"C", "B"}, o \in {0, 1, 7, 8},
        d \in {62500, 1000000, 6400000}}

InitMidi ==
    /\ pc = "encode"
    /\ tempo \in Tempos
    /\ midi_input \in UNION {[1 .. n -> MidiNotes] : n \in 0 .. MaxMidiNotes}
    /\ midi_events = <<>> /\ tempo_events = <<>>
    /\ env = AllAvailable /\ files = EmptyDir
    /\ log = <<>> /\ renderer_run = NoRun
    /\ synthesized_audio_path = "None" /\ manifest = NoManifest
    /\ error = "" /\ tool_result = NoResult
    /\ MapIdle /\ QuantIdle /\ SegIdle /\ ToolIdle /\ MaskIdle

\* lines 491-564
MidiCall ==
    /\ pc = "encode"
    /\ \E write \in WriteOutcomes :
          LET r == NotesToMidi(midi_input, tempo, env.midiutil, write)
          IN  /\ midi_events' = r.events
              /\ tempo_events' = r.tempos
              /\ files' = [files EXCEPT !["midi"] = r.file]
              /\ error' = r.error
              /\ pc' = IF r.ok THEN "encoded" ELSE "raised"
    /\ UNCHANGED <<tempo, midi_input, env, log, renderer_run,
                   synthesized_audio_path, manifest, tool_result,
                   mapVars, quantVars, segVars, toolVars, maskVars>>

NextMidi == MidiCall

SpecMidi == InitMidi /\ [][NextMidi]_vars

----------------------------------------------------------------------------
(* The tool extract_piano_from_audio (src/music_tools.py) and the pipeline  *)
(* process_audio_to_piano_sheet it runs                                     *)

\* an entry of the log: a step that started, or a renderer and how it ended
Started(step) == [name |-> step, result |-> "started"]
Attempt(renderer, result) == [name |-> renderer, result |-> result]

\* line 988
NoNotesMessage == "No notes extracted from audio. Please check the audio file."

\* src/music_tools.py lines 378-386: the checks of the tool and mkdtemp
ToolStart ==
    /\ pc = "tool"
    /\ IF ~env.extractor                                             \* 378-379
       THEN /\ tool_result' = [error |-> <<"Piano extractor not initialized">>]
            /\ pc' = "tool_done"
       ELSE IF ~env.audio                                            \* 381-382
       THEN /\ tool_result' = [error |-> <<"Audio file not found">>]
            /\ pc' = "tool_done"
       ELSE /\ tool_result' = tool_result
            /\ pc' = "start"
    /\ UNCHANGED <<env, files, log, renderer_run, synthesized_audio_path,
                   manifest, error, mapVars, quantVars, segVars, midiVars, toolVars, maskVars>>

\* lines 971-984: step 1, the extracted piano audio is written; it raises
\* when the audio cannot be decoded or written
ExtractPiano ==
    /\ pc = "start"
    /\ \E outcome \in {"ok", "raise"} :
          IF outcome = "ok"
          THEN /\ files' = [files EXCEPT !["piano_audio"] = "nonempty"]
               /\ log' = log \o <<Started("step1"), Started("step2")>>
               /\ error' = error
               /\ pc' = "loop"
          ELSE /\ files' = files
               /\ log' = Append(log, Started("step1"))
               /\ error' = "Error extracting piano from audio"
               /\ pc' = "raised"
    /\ UNCHANGED <<env, renderer_run, synthesized_audio_path, manifest,
                   tool_result, mapVars, quantVars, segVars, midiVars, toolVars, maskVars>>

\* line 987 in a variant that never finds the list empty
NotesMissingNever(ns) == FALSE

\* line 987: not notes
NotesMissing(ns) == ns = <<>>

\* lines 987-988
NoNotes ==
    /\ pc = "done"
    /\ NotesMissing(quantized_notes)
    /\ error' = NoNotesMessage
    /\ pc' = "raised"
    /\ UNCHANGED <<env, files, log, renderer_run, synthesized_audio_path,
                   manifest, tool_result, mapVars, quantVars, segVars, midiVars,
                   toolVars, maskVars>>

\* line 994 in a variant that goes on to step 4 whatever notes_to_midi did
AfterMidiAlways(ok) == "notation"

\* line 994: an exception of notes_to_midi leaves process_audio_to_piano_sheet
AfterMidi(ok) == IF ok THEN "notation" ELSE "raised"

\* lines 990-994: step 3
GenerateMidi ==
    /\ pc = "done"
    /\ ~NotesMissing(quantized_notes)
    /\ midi_input' = quantized_notes
    /\ log' = Append(log, Started("step3"))
    /\ \E write \in WriteOutcomes :
          LET r == NotesToMidi(quantized_notes, tempo, env.midiutil, write)
          IN  /\ midi_events' = r.events
              /\ tempo_events' = r.tempos
              /\ files' = [files EXCEPT !["midi"] = r.file]
              /\ error' = r.error
              /\ pc' = AfterMidi(r.ok)
    /\ UNCHANGED <<tempo, env, renderer_run, synthesized_audio_path, manifest,
                   tool_result, mapVars, quantVars, segVars, toolVars, maskVars>>

\* what the MuseScore process can do: time out, or exit with a return code;
\* either way the output file is absent, empty or nonempty afterwards
MuseScoreRuns ==
    [timed_out : {FALSE}, returncode : {0, 1}, pdf : {"absent", "empty", "nonempty"}]
    \cup [timed_out : {TRUE}, returncode : {-1}, pdf : {"absent", "empty", "nonempty"}]

\* lines 665-720: musicxml_to_pdf, given whether the executable and the
\* input exist and what the process does
MusicXmlToPdf(musescore_exists, musicxml, run) ==
    IF ~musescore_exists                                            \* 682-686
    THEN [called |-> TRUE, launched |-> FALSE, result |-> "failed",
          timed_out |-> FALSE, returncode |-> -1, pdf |-> "absent"]
    ELSE IF musicxml = "absent"                                     \* 689-690
    THEN [called |-> TRUE, launched |-> FALSE, result |-> "failed",
          timed_out |-> FALSE, returncode |-> -1, pdf |-> "absent"]
    ELSE [called |-> TRUE, launched |-> TRUE,
          result |-> IF run.timed_out THEN "failed"                 \* 716-717
                     ELSE IF run.pdf = "nonempty" THEN "ok"         \* 710-711
                     ELSE "failed",                                 \* 712-714
          timed_out |-> run.timed_out, returncode |-> run.returncode,
          pdf |-> run.pdf]

\* lines 886-945 in a variant without the test of line 883
SimpleSheetPdfUnchecked(reportlab, draw) == IF draw = "ok" THEN "ok" ELSE "failed"

\* lines 880-945: _generate_simple_sheet_pdf, given whether reportlab was
\* imported and whether drawing and saving the canvas works
SimpleSheetPdf(reportlab, draw) ==
    IF ~reportlab THEN "unavailable"                                \* 883-884
    ELSE IF draw = "ok" THEN "ok" ELSE "failed"                     \* 886-945

\* lines 1002-1013 in a variant that goes on to the fallback after a success too
AfterRendererAlways(result, fallback) == fallback

\* lines 1002-1013: a renderer that returns ends the notation stage, one that
\* raises hands over to the except clause around it
AfterRenderer(result, fallback) == IF result = "ok" THEN "resynth" ELSE fallback

\* lines 1002-1007 with 797-878: the first renderer, midi_to_pdf_workflow
MidiToPdfWorkflow ==
    /\ pc = "notation"
    /\ \E parse \in {"ok", "fail"} : \E write \in WriteOutcomes : \E run \in MuseScoreRuns :
          LET started == log \o <<Started("step4")>>
              name == "midi_to_pdf_workflow"
          IN  IF ~env.music21                                        \* 817-818
              THEN /\ log' = Append(started, Attempt(name, "unavailable"))
                   /\ UNCHANGED <<files, renderer_run>>
                   /\ pc' = "notation2"
              ELSE IF parse = "fail"                                 \* 820-856
              THEN /\ log' = Append(started, Attempt(name, "failed"))
                   /\ UNCHANGED <<files, renderer_run>>
                   /\ pc' = "notation2"
              ELSE IF write # "written"                              \* 858-863
              THEN /\ log' = Append(started, Attempt(name, "failed"))
                   /\ files' = [files EXCEPT !["musicxml"] = write]
                   /\ UNCHANGED renderer_run
                   /\ pc' = "notation2"
              ELSE LET r == MusicXmlToPdf(env.musescore, "nonempty", run)  \* 866
                   IN  /\ renderer_run' = r
                       /\ log' = Append(started, Attempt(name, r.result))
                       /\ files' = [files EXCEPT
                              !["pdf"] = IF r.launched THEN r.pdf ELSE @,
                              !["musicxml"] = IF r.result = "ok"     \* 869-873
                                              THEN "absent" ELSE "nonempty"]
                       /\ pc' = AfterRenderer(r.result, "notation2")
    /\ UNCHANGED <<env, synthesized_audio_path, manifest, error, tool_result,
                   mapVars, quantVars, segVars, midiVars, toolVars, maskVars>>

\* lines 1008-1012 with 722-795: the second renderer, generate_sheet_music_pdf,
\* which itself falls back to _generate_simple_sheet_pdf (lines 738 and 795);
\* the music21 PDF writer needs MuseScore
GenerateSheetMusicPdf ==
    /\ pc = "notation2"
    /\ \E writer \in {"ok", "fail"} : \E draw \in {"ok", "fail"} :
          LET name == "generate_sheet_music_pdf"
              simple == SimpleSheetPdf(env.reportlab, draw)
              fallback == <<Attempt("_generate_simple_sheet_pdf", simple)>>
          IN  IF env.music21 /\ env.musescore /\ writer = "ok"       \* 740-788
              THEN /\ log' = Append(log, Attempt(name, "ok"))
                   /\ files' = [files EXCEPT !["pdf"] = "nonempty"]
                   /\ pc' = AfterRenderer("ok", "notation3")
              ELSE /\ log' = log \o <<Attempt(name, IF env.music21 THEN "failed"
                                                    ELSE "unavailable")>> \o fallback
                   /\ files' = [files EXCEPT !["pdf"] = IF simple = "ok"
                                                       THEN "nonempty" ELSE @]
                   /\ pc' = AfterRenderer(simple, "notation3")
    /\ UNCHANGED <<env, renderer_run, synthesized_audio_path, manifest, error,
                   tool_result, mapVars, quantVars, segVars, midiVars, toolVars, maskVars>>

\* line 1013 with 880-945: the last renderer, called outside any try
GenerateSimpleSheetPdf ==
    /\ pc = "notation3"
    /\ \E draw \in {"ok", "fail"} :
          LET simple == SimpleSheetPdf(env.reportlab, draw)
          IN  /\ log' = Append(log, Attempt("_generate_simple_sheet_pdf", simple))
              /\ files' = [files EXCEPT !["pdf"] = IF simple = "ok"
                                                  THEN "nonempty" ELSE @]
              /\ error' = IF simple = "ok" THEN error
                          ELSE IF simple = "unavailable"
                          THEN "reportlab is required for PDF generation"
                          ELSE "Error creating simple PDF"
              /\ pc' = AfterRenderer(simple, "raised")
    /\ UNCHANGED <<env, renderer_run, synthesized_audio_path, manifest,
                   tool_result, mapVars, quantVars, segVars, midiVars, toolVars, maskVars>>

\* line 1024 in a variant that keeps the path of line 1020
AfterSynthesisFailureKept(path) == path

\* line 1024: synthesized_audio_path = None
AfterSynthesisFailure(path) == "None"

\* lines 1015-1024 with 566-612: step 5, midi_to_audio inside try/except
MidiToAudio ==
    /\ pc = "resynth"
    /\ \E synth \in {"ok", "fail"} :
          LET path == "synthesized.wav"                               \* 1020
              result == IF ~env.pretty_midi THEN "unavailable"        \* 580-581
                        ELSE IF synth = "ok" THEN "ok" ELSE "failed"  \* 583-612
          IN  /\ log' = log \o <<Started("step5"), Attempt("midi_to_audio", result)>>
              /\ synthesized_audio_path' =
                    IF result = "ok" THEN path ELSE AfterSynthesisFailure(path)
              /\ files' = [files EXCEPT !["synthesized_audio"] =
                              IF result = "ok" THEN "nonempty" ELSE @]
    /\ pc' = "return"
    /\ UNCHANGED <<env, renderer_run, manifest, error, tool_result,
                   mapVars, quantVars, segVars, midiVars, toolVars, maskVars>>

\* lines 1026-1032
ReturnManifest ==
    /\ pc = "return"
    /\ manifest' = [piano_audio |-> "piano.wav", midi |-> "piano.mid",
                    pdf |-> "sheet_music.pdf",
                    synthesized_audio |-> synthesized_audio_path,
                    notes_count |-> Len(quantized_notes)]
    /\ pc' = "returned"
    /\ UNCHANGED <<env, files, log, renderer_run, synthesized_audio_path, error,
                   tool_result, mapVars, quantVars, segVars, midiVars, toolVars, maskVars>>

\* src/music_tools.py line 397: json.dumps(results)
ToolReturn ==
    /\ pc = "returned"
    /\ tool_result' = manifest
    /\ pc' = "tool_done"
    /\ UNCHANGED <<env, files, log, renderer_run, synthesized_audio_path,
                   manifest, error, mapVars, quantVars, segVars, midiVars, toolVars, maskVars>>

\* src/music_tools.py lines 398-400
ToolError ==
    /\ pc = "raised"
    /\ tool_result' = [error |-> <<"Error extracting piano: ", error>>]
    /\ pc' = "tool_done"
    /\ UNCHANGED <<env, files, log, renderer_run, synthesized_audio_path,
                   manifest, error, mapVars, quantVars, segVars, midiVars, toolVars, maskVars>>

NextTool ==
    \/ ToolStart \/ ExtractPiano \/ ProcessFrame \/ Finish \/ NoNotes
    \/ GenerateMidi \/ MidiToPdfWorkflow \/ GenerateSheetMusicPdf
    \/ GenerateSimpleSheetPdf \/ MidiToAudio \/ ReturnManifest
    \/ ToolReturn \/ ToolError

\* the state in which the tool is called
ToolCalled ==
    /\ pc = "tool"
    /\ hop = DefaultHop
    /\ i = 0
    /\ current_note = None
    /\ current_note_start_idx = -1
    /\ current_note_start_time = -1
    /\ notes = <<>> /\ filtered_notes = <<>> /\ quantized_notes = <<>>
    /\ midi_input = <<>> /\ midi_events = <<>> /\ tempo_events = <<>>
    /\ files = EmptyDir /\ log = <<>> /\ renderer_run = NoRun
    /\ synthesized_audio_path = "None" /\ manifest = NoManifest
    /\ error = "" /\ tool_result = NoResult
    /\ MapIdle /\ QuantIdle /\ ToolIdle /\ MaskIdle

\* SpecTool: the tool in every environment, at every tempo of Tempos, on
\* three recordings: one without a voiced frame, an A3 held for 3 frames, and
\* an A3 held for 3 frames followed by a C4 held for 2 frames
ToolTracks ==
    {Repeat(Unvoiced, 2),
     SustainTrack(-1200, 3, 1),
     Repeat(Voiced(-1200), 3) \o Repeat(Voiced(-900), 2)}

InitTool ==
    /\ env \in Envs
    /\ tempo \in Tempos
    /\ f0 \in ToolTracks
    /\ ToolCalled

SpecTool == InitTool /\ [][NextTool]_vars

\* SpecRoundTrip: the tool with every library and MuseScore present, on the
\* recordings of SpecSustain
InitRoundTrip ==
    /\ env = AllAvailable
    /\ tempo \in Tempos
    /\ \E cents \in {-1200, -900} : \E n \in 1 .. MaxHeldFrames : \E tail \in 0 .. 1 :
           f0 = SustainTrack(cents, n, tail)
    /\ ToolCalled

SpecRoundTrip == InitRoundTrip /\ [][NextTool]_vars

----------------------------------------------------------------------------
(* SpecConcurrent: two invocations of the tool extract_piano_from_audio     *)
(* running at the same time, step by step in any order; each is followed    *)
(* through the paths it writes                                              *)

Invocations == {1, 2}

\* the names mkdtemp can draw, and the file names (without extension) of the
\* recordings
DirNames == {"piano_extraction_a", "piano_extraction_b", "piano_extraction_c"}
BaseNames == {"song", "tune"}
NoDir == "None"

\* src/music_tools.py line 386 in a variant that may return a directory
\* that exists already
AnyDir(existing) == DirNames

\* src/music_tools.py line 386: tempfile.mkdtemp creates a directory that did
\* not exist
FreshDir(existing) == DirNames \ existing

\* os.path.join(output_dir, f"{base_name}<suffix>")
Path(p, suffix) == <<inv[p].output_dir, inv[p].base_name, suffix>>

\* invocation p writes the file of a suffix and goes on at next
Writes(p, suffix, next) ==
    /\ written' = written \cup {[path |-> Path(p, suffix), by |-> p]}
    /\ inv' = [inv EXCEPT ![p].pc = next]
    /\ dirs' = dirs

\* invocation p writes nothing and goes on at next
Goes(p, next) ==
    /\ inv' = [inv EXCEPT ![p].pc = next]
    /\ UNCHANGED <<dirs, written>>

othersVars == <<pc, mapVars, quantVars, segVars, midiVars, pipeVars, maskVars>>

\* src/music_tools.py lines 384-386
CreateDir ==
    /\ \E p \in Invocations :
          /\ inv[p].pc = "tool"
          /\ \E d \in FreshDir(dirs) :
                /\ inv' = [inv EXCEPT ![p].pc = "piano", ![p].output_dir = d]
                /\ dirs' = dirs \cup {d}
          /\ written' = written
    /\ UNCHANGED othersVars

\* lines 978-988: the piano audio is written, or the extraction raises; then
\* the notes are extracted, or there are none
WritePianoAudio ==
    /\ \E p \in Invocations :
          /\ inv[p].pc = "piano"
          /\ \/ Writes(p, "_piano.wav", "midi")
             \/ Writes(p, "_piano.wav", "end")
             \/ Goes(p, "end")
    /\ UNCHANGED othersVars

\* lines 993-994
WriteMidi ==
    /\ \E p \in Invocations :
          /\ inv[p].pc = "midi"
          /\ \/ Writes(p, "_piano.mid", "musicxml")
             \/ Goes(p, "end")
    /\ UNCHANGED othersVars

\* lines 858-863: the MusicXML file next to the PDF, unless music21 is missing
\* or fails before
WriteMusicXml ==
    /\ \E p \in Invocations :
          /\ inv[p].pc = "musicxml"
          /\ \/ Writes(p, "_sheet_music.musicxml", "pdf")
             \/ Goes(p, "pdf")
    /\ UNCHANGED othersVars

\* lines 999-1013: a renderer writes the PDF, or the last one raises
WritePdf ==
    /\ \E p \in Invocations :
          /\ inv[p].pc = "pdf"
          /\ \/ Writes(p, "_sheet_music.pdf", "synth")
             \/ Goes(p, "end")
    /\ UNCHANGED othersVars

\* lines 1016-1024 and the return of lines 1026-1032
WriteSynthesizedAudio ==
    /\ \E p \in Invocations :
          /\ inv[p].pc = "synth"
          /\ \/ Writes(p, "_synthesized.wav", "end")
             \/ Goes(p, "end")
    /\ UNCHANGED othersVars

NextConcurrent ==
    \/ CreateDir \/ WritePianoAudio \/ WriteMidi \/ WriteMusicXml \/ WritePdf
    \/ WriteSynthesizedAudio

InitConcurrent ==
    /\ pc = "concurrent"
    /\ inv \in [Invocations -> [pc : {"tool"}, base_name : BaseNames, output_dir : {NoDir}]]
    /\ dirs \in {{}, {"piano_extraction_a"}}
    /\ written = {}
    /\ MapIdle /\ QuantIdle /\ SegIdle /\ MidiIdle /\ PipeIdle /\ MaskIdle

SpecConcurrent == InitConcurrent /\ [][NextConcurrent]_vars

----------------------------------------------------------------------------
(* The frequency mask of PianoExtractor.extract_piano_from_audio and        *)
(* SpecMask, the mask loop over the bins of the default STFT.               *)
(* Here a frequency is an integer number of sixteenths of a hertz, the unit *)
(* in which the bin frequencies k * 16000 / 2048 are whole, and a gain is   *)
(* an integer number of hundredths.                                         *)

\* fmin = 27.5
fmin == 440
\* fmax = 4186.0
fmax == 66976
\* vocal_fundamental_min = 80.0
vocal_fundamental_min == 1280
\* vocal_fundamental_max = 300.0
vocal_fundamental_max == 4800
\* sr / n_fft = 16000 / 2048 = 7.8125 Hz between two bins
BinWidth == 125
\* 1 + n_fft / 2 bins
NumBins == 1025

\* line 124: librosa.fft_frequencies(sr=sr, n_fft=frame_length)[k]
fft_frequencies(k) == k * BinWidth

piano_mask(freq) == freq >= fmin /\ freq <= fmax

vocal_mask(freq) == ~(freq >= vocal_fundamental_min /\ freq <= vocal_fundamental_max)

high_freq_mask(freq) == freq <= fmax

combined_mask(freq) == piano_mask(freq) /\ vocal_mask(freq) /\ high_freq_mask(freq)

\* lines 149-154: the factor a bin of frequency freq is multiplied by
MaskGain(freq) ==
    IF ~combined_mask(freq)
    THEN 10                                                   \* *= 0.1
    ELSE IF freq >= vocal_fundamental_min /\ freq <= vocal_fundamental_max
         THEN 5                                               \* *= 0.05
         ELSE 100                                             \* untouched

\* lines 148-154: one iteration of the loop over the bins
MaskBin ==
    /\ pc = "mask"
    /\ Len(stft_filtered) < NumBins
    /\ stft_filtered' = Append(stft_filtered,
                               MaskGain(fft_frequencies(Len(stft_filtered))))
    /\ UNCHANGED <<pc, mapVars, quantVars, segVars, midiVars, pipeVars, toolVars>>

NextMask == MaskBin

InitMask ==
    /\ pc = "mask"
    /\ stft_filtered = <<>>
    /\ MapIdle /\ QuantIdle /\ SegIdle /\ MidiIdle /\ PipeIdle /\ ToolIdle

SpecMask == InitMask /\ [][NextMask]_vars

----------------------------------------------------------------------------
(* Properties *)

SamePitch(a, b) == a.note_name = b.note_name /\ a.octave = b.octave

\* semitones from C4 of a frequency: round(12 * log2(f / 440)) + 9
SemitonesFromC4(freq) == Round100(freq) + 9

\* C1 (SpecMap).  For every frequency f > 0 with c semitones from C4, the
\* mapper returns pitch class NOTE_NAMES[c mod 12] and octave
\* 4 + floor(c / 12), for negative c as for non-negative c, whenever that
\* octave is in 1..8 and neither correction of the mapper (subharmonic
\* doubling, lines 418-431; low-frequency octave step, lines 440-444) applies.
C1_OctaveFormula ==
    (pc = "mapped" /\ frequency # NonPositive) =>
        LET c == SemitonesFromC4(frequency)
            octave == 4 + (c \div 12)
        IN  ( /\ octave \in 1 .. 8
              /\ ~SubharmonicCorrection(frequency, OctaveFromC4(c))
              /\ frequency >= Hz30 )
            => mapped = [name |-> NOTE_NAMES[(c % 12) + 1], octave |-> octave]

\* C2 (SpecHeld).  A3 voiced for 2 s, then 1 s unvoiced, is returned as
\* exactly one note, A in octave 3, of duration within 100 ms of 2 s, and no
\* note has its onset in the silent tail.
C2_HeldA3 ==
    pc = "done" =>
        /\ Len(quantized_notes) = 1
        /\ quantized_notes[1].note_name = "A"
        /\ quantized_notes[1].octave = 3
        /\ Abs(quantized_notes[1].duration - 2000000) <= 100000
        /\ \A k \in 1 .. Len(quantized_notes) : quantized_notes[k].time < 2000000

\* C3 (Spec).  In the returned sequence the onsets are non-decreasing, and no
\* two adjacent notes have the same (pitch class, octave) while the gap from
\* the end of the earlier to the onset of the later is below min_onset_gap.
C3_Monotonicity ==
    pc = "done" =>
        \A k \in 1 .. Len(quantized_notes) - 1 :
            LET a == quantized_notes[k]
                b == quantized_notes[k + 1]
            IN  /\ a.time <= b.time
                /\ ~(SamePitch(a, b) /\ b.time - (a.time + a.duration) < min_onset_gap)

\* index of the last voiced frame of a track (0 when there is none)
LastVoiced(track) ==
    LET voicedAt == {k \in 1 .. Len(track) : track[k].voiced}
    IN  IF voicedAt = {} THEN 0 ELSE CHOOSE k \in voicedAt : \A j \in voicedAt : j <= k

\* C4 (SpecDropout).  Two runs of C4, each at least 100 ms long, separated by
\* 30 ms of unvoiced frames are returned as a single note, whose onset is the
\* onset of the first run and whose duration before quantization extends to
\* the end of the second run.
C4_DropoutMerged ==
    pc = "done" =>
        /\ Len(quantized_notes) = 1
        /\ Len(filtered_notes) = 1
        /\ quantized_notes[1].time = 0
        /\ filtered_notes[1].time + filtered_notes[1].duration = LastVoiced(f0) * hop

\* C5 (Spec).  In the returned sequence no two adjacent notes of the same
\* (pitch class, octave) abut or overlap: a.onset + a.duration < b.onset.
C5_NoAbuttingSamePitch ==
    pc = "done" =>
        \A k \in 1 .. Len(quantized_notes) - 1 :
            LET a == quantized_notes[k]
                b == quantized_notes[k + 1]
            IN  SamePitch(a, b) => a.time + a.duration < b.time

InRange(n) == 1 <= n.octave /\ n.octave <= 7

\* the frame a note was opened by, as the mapper sees it or doubled
FromFrame(n) ==
    \E k \in 1 .. Len(f0) :
        /\ n.time = (k - 1) * hop
        /\ f0[k].voiced /\ ~f0[k].nan
        /\ n.frequency \in {f0[k].freq, f0[k].freq + Octave}
        /\ FrequencyToNote(n.frequency) = [name |-> n.note_name, octave |-> n.octave]

\* C6 (Spec).  Every note the segmenter holds, emits or returns has
\* 1 <= octave <= 7, and carries the pitch the mapper gives to the frequency
\* of the frame that opened it, or to twice that frequency; so a frame whose
\* pitch is outside the range is octave-corrected or contributes no note.
C6_RangeInvariant ==
    /\ current_note # None => InRange(current_note) /\ FromFrame(current_note)
    /\ \A k \in 1 .. Len(notes) : InRange(notes[k]) /\ FromFrame(notes[k])
    /\ \A k \in 1 .. Len(quantized_notes) :
           InRange(quantized_notes[k]) /\ FromFrame(quantized_notes[k])

\* C6 witness: a track with a voiced frame above the range (C8) has been
\* segmented and a note is returned.
C6_Witness ==
    /\ pc = "done"
    /\ \E k \in 1 .. Len(f0) : f0[k] = HighFrame
    /\ Len(quantized_notes) >= 1

ClosesHeld ==
    /\ pc = "loop" /\ i' = i + 1
    /\ current_note # None
    /\ current_note' # current_note

\* C8 (Spec).  When the frame loop closes a held note its measured duration
\* is the closing frame's time minus the start time; the note is appended,
\* with that duration, if and only if it is >= 100 ms, and otherwise dropped
\* while the loop goes on; notes changes in no other step of the loop.  So
\* every note of the output had a measured duration of at least 100 ms.
C8_MinimumDuration ==
    /\ [][ClosesHeld =>
            LET measured == Times(i) - current_note_start_time
            IN  /\ pc' = "loop"
                /\ IF measured >= min_note_duration
                   THEN notes' = Append(notes, [current_note EXCEPT !.duration = measured])
                   ELSE notes' = notes]_vars
    /\ [][(pc = "loop" /\ pc' = "loop" /\ ~ClosesHeld) => notes' = notes]_vars
    /\ [](\A k \in 1 .. Len(notes) : notes[k].duration >= min_note_duration)
    /\ [](\A k \in 1 .. Len(filtered_notes) :
              filtered_notes[k].duration >= min_note_duration)

\* C8 witness: the loop has dropped a held note that lasted less than 100 ms,
\* after it had appended another.
C8_Witness ==
    /\ pc = "loop"
    /\ Len(notes) = 1
    /\ i >= 4
    /\ current_note = None
    /\ ~f0[i].voiced /\ f0[i - 1].voiced /\ ~f0[i - 1].nan /\ f0[i - 1].freq = -900
    /\ ~f0[i - 2].voiced

StandardSet == {standard_durations[k] : k \in 1 .. Len(standard_durations)}

\* C9 (SpecQuant).  The quantized duration q of a measured duration d > 0 is
\* the member of the standard set nearest to d, except that it is d itself
\* when that member is below 0.7 * d; hence q >= 0.7 * d.
C9_QuantizerRule ==
    pc \in {"quantized", "requantized"} =>
        /\ \E m \in StandardSet :
               /\ \A x \in StandardSet : Abs(m - duration) <= Abs(x - duration)
               /\ quantized = IF 10 * m < 7 * duration THEN duration ELSE m
        /\ 10 * quantized >= 7 * duration

\* C9 witness: a duration whose nearest member is below 0.7 of it was kept.
C9_Witness ==
    /\ pc = "quantized"
    /\ duration \notin StandardSet
    /\ duration < 4000000
    /\ quantized = duration

\* C10 (SpecQuant).  Quantizing a quantized duration returns the same value.
C10_Idempotent == pc = "requantized" => requantized = quantized

\* C10 witness: a duration that quantization changed has been quantized twice.
C10_Witness ==
    /\ pc = "requantized"
    /\ quantized # duration
    /\ requantized = quantized

\* C11 (SpecSustain).  Every note the segmenter returns has a duration that is
\* a member of {4.0, 2.0, 1.0, 0.5, 0.25, 0.125, 0.0625} s, whatever its
\* measured duration was.
C11_DurationsFromSet ==
    pc = "done" =>
        \A k \in 1 .. Len(quantized_notes) :
            quantized_notes[k].duration \in StandardSet

\* the members of the set nearest to a duration
NearestMembers(d) ==
    {m \in StandardSet : \A x \in StandardSet : Abs(m - d) <= Abs(x - d)}

\* C11, amended (SpecSustain).  Every returned note's duration is a member of
\* the set, or it is the note's measured duration, and then the member of the
\* set nearest to it is below 0.7 of it.
C11_FromSetOrMeasured ==
    pc = "done" =>
        /\ Len(quantized_notes) = Len(filtered_notes)
        /\ \A k \in 1 .. Len(quantized_notes) :
              LET q == quantized_notes[k].duration
                  d == filtered_notes[k].duration
              IN  \/ q \in StandardSet
                  \/ /\ q = d
                     /\ \E m \in NearestMembers(d) : 10 * m < 7 * d

\* a note held for 23 frames (1.472 s) is returned with its measured duration
C11_Witness ==
    /\ pc = "done"
    /\ \E k \in 1 .. Len(quantized_notes) :
          /\ filtered_notes[k].duration = 1472000
          /\ quantized_notes[k].duration = 1472000

\* the pitch class number of a note name: its place in NOTE_NAMES, from 0
PitchClass(name) == CHOOSE p \in 0 .. 11 : NOTE_NAMES[p + 1] = name

\* x clamped into [lo, hi]
Clamped(x, lo, hi) == IF x < lo THEN lo ELSE IF x > hi THEN hi ELSE x

DecodedName(number) == NOTE_NAMES[(number % 12) + 1]
DecodedOctave(number) == (number \div 12) - 1

\* the largest difference between two neighbouring standard durations (2 s);
\* the other quantization steps are smaller
QuantizationStep == standard_durations[1] - standard_durations[2]

\* the MIDI file of the invocation has been written
Encoded == pc \notin {"tool", "start", "loop", "done"} /\ files["midi"] = "nonempty"

\* C13 (SpecRoundTrip).  For every note sequence the segmenter returns and
\* every tempo of the range 60-180, decoding the encoded events gives the same
\* (pitch_class, octave) sequence and durations that differ from the original
\* ones by at most one quantization step, also where the encoder clamps a
\* duration to 1/8 beat or to 16 beats.
C13_RoundTrip ==
    Encoded =>
        /\ Len(midi_events) = Len(midi_input)
        /\ \A k \in 1 .. Len(midi_input) :
              /\ DecodedName(midi_events[k].pitch) = midi_input[k].note_name
              /\ DecodedOctave(midi_events[k].pitch) = midi_input[k].octave
              /\ Abs(midi_events[k].duration - midi_input[k].duration * tempo)
                    <= QuantizationStep * tempo

\* C13, amended (SpecRoundTrip).  Decoding gives the same (pitch_class,
\* octave) sequence; the duration of a note of at most 16 beats is reproduced
\* exactly, and a note of more than 16 beats is decoded as 16 beats.
C13_RoundTripUpTo16Beats ==
    Encoded =>
        /\ Len(midi_events) = Len(midi_input)
        /\ \A k \in 1 .. Len(midi_input) :
              /\ DecodedName(midi_events[k].pitch) = midi_input[k].note_name
              /\ DecodedOctave(midi_events[k].pitch) = midi_input[k].octave
              /\ midi_events[k].duration =
                    IF midi_input[k].duration * tempo <= 16 * Beat
                    THEN midi_input[k].duration * tempo
                    ELSE 16 * Beat

\* a note of 7.68 s (120 frames) at 180 beats per minute, 23.04 beats, was
\* encoded as 16 beats (5.33 s)
C13_Witness ==
    /\ Encoded
    /\ tempo = 180
    /\ Len(midi_input) = 1 /\ Len(midi_events) = 1
    /\ midi_input[1].duration = 7680000
    /\ midi_events[1].duration = 16 * Beat

\* the entries of the log with a name
Entries(name) == {k \in 1 .. Len(log) : log[k].name = name}
StartedStep(step) == Entries(step) # {}

\* the renderer attempts of the log, all of them without success
Renderers == {"midi_to_pdf_workflow", "generate_sheet_music_pdf",
              "_generate_simple_sheet_pdf"}
EveryRendererFailed ==
    /\ \A r \in Renderers : Entries(r) # {}
    /\ \A k \in 1 .. Len(log) : log[k].name \in Renderers => log[k].result # "ok"

\* process_audio_to_piano_sheet has returned or raised
Ended == pc \in {"returned", "raised"} \/ (pc = "tool_done" /\ log # <<>>)

\* C14 (SpecTool).  Once the MIDI file is written, a failure of the notation
\* stage, even of every renderer of the chain, does not abort the invocation:
\* no exception leaves process_audio_to_piano_sheet after step 4 has started,
\* and it returns a manifest.
C14_NotationNeverFatal ==
    (StartedStep("step4") /\ Ended) => (error = "" /\ manifest # NoManifest)

\* the notation stage is over
NotationEnded ==
    StartedStep("step4") /\ pc \in {"resynth", "return", "returned", "raised", "tool_done"}

SynthesisFailed == \E k \in Entries("midi_to_audio") : log[k].result # "ok"

\* C16 (SpecTool).  A failure of midi_to_audio is caught: no exception leaves
\* process_audio_to_piano_sheet, and the manifest it returns has
\* synthesized_audio None and the other fields as after a successful
\* resynthesis.
C16_SynthesisBestEffort ==
    SynthesisFailed =>
        /\ pc # "raised" /\ error = ""
        /\ pc \in {"returned", "tool_done"} =>
              /\ manifest = [piano_audio |-> "piano.wav", midi |-> "piano.mid",
                             pdf |-> "sheet_music.pdf", synthesized_audio |-> "None",
                             notes_count |-> Len(quantized_notes)]
              /\ files["synthesized_audio"] = "absent"

\* pretty_midi is missing and the manifest is returned without the audio
C16_Witness ==
    /\ ~env.pretty_midi
    /\ pc = "returned"
    /\ SynthesisFailed
    /\ manifest.synthesized_audio = "None"
    /\ manifest.notes_count = 2

\* the segmenter has returned an empty list
ReturnedNoNotes ==
    /\ StartedStep("step2")
    /\ pc \in {"raised", "tool_done"}
    /\ quantized_notes = <<>>

\* C17 (SpecTool).  When the segmenter returns no note,
\* process_audio_to_piano_sheet raises the 'no notes extracted' error, starts
\* none of the MIDI, notation and resynthesis stages and returns no manifest;
\* the tool returns a record whose only field is the error message.
C17_NoNotesIsAnError ==
    ReturnedNoNotes =>
        /\ error = NoNotesMessage
        /\ ~StartedStep("step3") /\ ~StartedStep("step4") /\ ~StartedStep("step5")
        /\ files["midi"] = "absent" /\ files["pdf"] = "absent"
        /\ manifest = NoManifest
        /\ pc = "tool_done" =>
              /\ DOMAIN tool_result = {"error"}
              /\ tool_result.error = <<"Error extracting piano: ", NoNotesMessage>>

C17_Witness ==
    /\ ReturnedNoNotes
    /\ pc = "tool_done"
    /\ DOMAIN tool_result = {"error"}

\* C18 (SpecTool).  musicxml_to_pdf, once it has run MuseScore, reports a
\* failure whenever the process exits with a non-zero code, or the output file
\* is missing or empty, or the process times out, and reports success only
\* when none of these happened: a non-zero exit is a failure even with a
\* non-empty file at the output path.
C18_RendererFailureDetection ==
    (renderer_run.called /\ renderer_run.launched) =>
        (renderer_run.result = "failed" <=>
            \/ renderer_run.returncode # 0
            \/ renderer_run.pdf # "nonempty"
            \/ renderer_run.timed_out)

\* C19 (SpecTool).  When process_audio_to_piano_sheet ends, by returning a
\* manifest or by raising, the intermediate MusicXML file does not exist.
C19_MusicXmlRemoved ==
    Ended => files["musicxml"] = "absent"

\* C20 (SpecConcurrent).  Two concurrent invocations of the tool, even on
\* recordings of the same base name, work in distinct directories, and under
\* every interleaving no path is written by both.
C20_ExclusiveDirectories ==
    \A p, q \in Invocations :
        p # q =>
            /\ (inv[p].output_dir # NoDir /\ inv[q].output_dir # NoDir)
                  => inv[p].output_dir # inv[q].output_dir
            /\ \A w, x \in written : (w.by = p /\ x.by = q) => w.path # x.path

\* both invocations, on recordings of the same base name, have written their PDF
C20_Witness ==
    /\ inv[1].base_name = inv[2].base_name
    /\ inv[1].pc = "end" /\ inv[2].pc = "end"
    /\ \E w, x \in written :
          /\ w.by = 1 /\ x.by = 2
          /\ w.path[3] = "_sheet_music.pdf" /\ x.path[3] = "_sheet_music.pdf"

\* the renderer attempts of the log, in order
RendererLog == SelectSeq(log, LAMBDA e : e.name \in Renderers)

\* the level of a renderer in the fallback chain
Level(name) ==
    IF name = "midi_to_pdf_workflow" THEN 1
    ELSE IF name = "generate_sheet_music_pdf" THEN 2 ELSE 3

\* C21 (SpecTool).  The renderers are attempted in the order external engine,
\* music21 PDF writer, minimal renderer: a level is attempted only after every
\* earlier level has failed, nothing is attempted after a success, and the
\* notation stage raises only after all three have failed.
C21_FallbackOrder ==
    LET rl == RendererLog
    IN  /\ \A j, k \in 1 .. Len(rl) : j < k => Level(rl[j].name) <= Level(rl[k].name)
        /\ \A k \in 1 .. Len(rl) : \A l \in 1 .. (Level(rl[k].name) - 1) :
              \E j \in 1 .. (k - 1) : Level(rl[j].name) = l /\ rl[j].result # "ok"
        /\ \A k \in 1 .. (Len(rl) - 1) : rl[k].result # "ok"
        /\ (StartedStep("step4") /\ error # "") => EveryRendererFailed

\* the minimal renderer made the document at line 1013, after the two earlier
\* levels and its own first attempt had failed
C21_Witness ==
    /\ pc = "resynth"
    /\ Len(RendererLog) = 4
    /\ RendererLog[1] = Attempt("midi_to_pdf_workflow", "failed")
    /\ RendererLog[2] = Attempt("generate_sheet_music_pdf", "failed")
    /\ RendererLog[3] = Attempt("_generate_simple_sheet_pdf", "failed")
    /\ RendererLog[4] = Attempt("_generate_simple_sheet_pdf", "ok")

\* C22 (SpecTool).  Within one invocation no step is executed more than once:
\* each step and each renderer of the fallback chain appears at most once in
\* the log, also when it fails.
C22_NoRetry ==
    \A k, j \in 1 .. Len(log) : log[k].name = log[j].name => k = j

StepNames == <<"step1", "step2", "step3", "step4", "step5">>
StepLog == SelectSeq(log, LAMBDA e : e.result = "started")

\* C23 (SpecTool).  The steps start in the order 1, 2, 3, 4, 5: the steps of
\* the log are a prefix of 1..5, the isolated audio is written when step 2
\* starts, and the MIDI file is written when step 4 or step 5 starts.
C23_ForwardOrder ==
    /\ Len(StepLog) <= 5
    /\ \A k \in 1 .. Len(StepLog) : StepLog[k].name = StepNames[k]
    /\ StartedStep("step2") => files["piano_audio"] = "nonempty"
    /\ (StartedStep("step4") \/ StartedStep("step5")) => files["midi"] = "nonempty"

\* all five steps have started and the manifest is returned
C23_Witness ==
    /\ pc = "returned"
    /\ Len(StepLog) = 5
    /\ files["midi"] = "nonempty" /\ files["piano_audio"] = "nonempty"

\* the frames the statement of C24 calls unvoiced or invalid: NaN pitch,
\* voicing flag false, frequency outside 60-2000 Hz, a pitch the mapper does
\* not resolve, or a pitch below octave 1 that doubling does not bring into
\* octaves 1..7
UnvoicedOrInvalid(fr) ==
    \/ fr.nan
    \/ ~fr.voiced
    \/ fr.freq < Hz60 \/ fr.freq > Hz2000
    \/ FrequencyToNote(fr.freq).name = "None"
    \/ /\ FrequencyToNote(fr.freq).octave < 1
       /\ \/ fr.freq + Octave > Hz2000
          \/ FrequencyToNote(fr.freq + Octave).octave \notin 1 .. 7

\* C24 (Spec).  Whenever the loop holds a note and processes an unvoiced or
\* invalid frame, it closes the held note at that frame's time (appending it
\* when it lasted at least 100 ms) and holds nothing afterwards; a voiced
\* frame in range processed while nothing is held opens a note at its time.
C24_CloseOnInvalid ==
    [][(pc = "loop" /\ i < Len(f0)) =>
          /\ (current_note # None /\ UnvoicedOrInvalid(f0[i + 1])) =>
                /\ current_note' = None
                /\ current_note_start_idx' = -1
                /\ notes' = IF Times(i) - current_note.time >= min_note_duration
                            THEN Append(notes, [current_note EXCEPT
                                                  !.duration = Times(i) - current_note.time])
                            ELSE notes
          /\ (current_note = None /\ ~UnvoicedOrInvalid(f0[i + 1])) =>
                /\ current_note' # None
                /\ current_note'.time = Times(i)]_vars

\* a note held for three frames has just been closed by a frame without the
\* voicing flag
C24_Witness ==
    /\ pc = "loop"
    /\ i = 4
    /\ ~f0[4].nan /\ ~f0[4].voiced
    /\ current_note = None
    /\ Len(notes) = 1
    /\ notes[1].time = 0 /\ notes[1].duration = Times(3)

\* C25 (SpecContinue).  While a note is held, a voiced frame in range that is
\* within 50 cents of the held frequency and maps to the held (pitch_class,
\* octave) leaves the held note, its frequency, its start and the emitted
\* notes unchanged; a frame 50 cents or more away, or of another pitch, closes
\* the held note at the frame's time and opens a note with that onset.
C25_Continuation ==
    [][(pc = "loop" /\ i < Len(f0) /\ current_note # None
          /\ ~UnvoicedOrInvalid(f0[i + 1])) =>
          LET fr == f0[i + 1]
              m == FrequencyToNote(fr.freq)
              same == m.name = current_note.note_name /\ m.octave = current_note.octave
              near == Abs(fr.freq - current_note.frequency) < 50
          IN  IF near /\ same
              THEN UNCHANGED <<current_note, current_note_start_idx,
                               current_note_start_time, notes>>
              ELSE /\ notes' = IF Times(i) - current_note.time >= min_note_duration
                               THEN Append(notes, [current_note EXCEPT
                                                  !.duration = Times(i) - current_note.time])
                               ELSE notes
                   /\ current_note' = [time |-> Times(i), note_name |-> m.name,
                                       octave |-> m.octave, frequency |-> fr.freq,
                                       duration |-> 0]
                   /\ current_note_start_time' = Times(i)]_vars

\* an A3 held over a frame 49 cents sharp was closed by a frame 2 cents
\* further up, which the mapper calls A#
C25_Witness ==
    /\ pc = "loop"
    /\ i = 4
    /\ f0[1].freq = -1200 /\ f0[2].freq = -1151 /\ f0[3].freq = -1151 /\ f0[4].freq = -1149
    /\ f0[1].voiced /\ f0[2].voiced /\ f0[3].voiced /\ f0[4].voiced
    /\ Len(notes) = 1 /\ notes[1].duration = Times(3) /\ notes[1].frequency = -1200
    /\ current_note.note_name = "A#" /\ current_note.time = Times(3)

\* the frame's own mapping is in an octave below 1
MapsBelowOctave1(fr) ==
    /\ ~fr.nan
    /\ fr.voiced
    /\ FrequencyToNote(fr.freq).name # "None"
    /\ FrequencyToNote(fr.freq).octave < 1

\* the doubled frequency lies in the effective range and maps to octave 1..7
DoubledUsable(fr) ==
    /\ Hz60 <= fr.freq + Octave
    /\ fr.freq + Octave <= Hz2000
    /\ FrequencyToNote(fr.freq + Octave).name # "None"
    /\ FrequencyToNote(fr.freq + Octave).octave \in 1 .. 7

\* the note was opened by frame idx (0-based) with that frame's frequency or
\* its double, and is of octave 1 or higher
AcceptedFrom(note, idx) ==
    /\ note.octave >= 1
    /\ note.frequency \in {f0[idx + 1].freq, f0[idx + 1].freq + Octave}
    /\ ~MapsBelowOctave1(f0[idx + 1]) => note.frequency = f0[idx + 1].freq

\* C26 (SpecSubharmonic).  A voiced frame whose pitch maps to an octave below
\* 1 leaves the segmenter with the doubled frequency's pitch if the doubled
\* frequency lies in 60-2000 Hz and maps to an octave in 1..7, and otherwise
\* contributes no pitch (the segmenter is idle after it and no note starts at
\* it); no held or emitted note has an octave below 1, and its frequency is
\* that of the frame at its onset, doubled at most once.
C26_OctaveCorrection ==
    /\ [](/\ current_note # None => AcceptedFrom(current_note, current_note_start_idx)
          /\ \A k \in 1 .. Len(notes) : AcceptedFrom(notes[k], notes[k].time \div hop))
    /\ [][(pc = "loop" /\ i < Len(f0) /\ MapsBelowOctave1(f0[i + 1])) =>
            IF DoubledUsable(f0[i + 1])
            THEN /\ current_note' # None
                 /\ current_note'.note_name = FrequencyToNote(f0[i + 1].freq + Octave).name
                 /\ current_note'.octave = FrequencyToNote(f0[i + 1].freq + Octave).octave
            ELSE /\ current_note' = None
                 /\ \A k \in 1 .. Len(notes') : notes'[k].time # Times(i)]_vars

\* A3 was held for two frames when a voiced 24.5 Hz frame (G0 for the mapper)
\* arrived: the note is emitted and nothing is held
C26_Witness ==
    /\ pc = "loop"
    /\ i = 3
    /\ f0[1] = Voiced(-1200) /\ f0[2] = Voiced(-1200) /\ f0[3] = Voiced(-5000)
    /\ FrequencyToNote(-5000).octave = 0
    /\ current_note = None
    /\ Len(notes) = 1 /\ notes[1].duration = Times(2)

\* the bins the loop has gone through: bin k has its gain at k + 1
MaskedBins == 0 .. (Len(stft_filtered) - 1)

VocalBand(freq) == freq >= vocal_fundamental_min /\ freq <= vocal_fundamental_max

OutsidePianoRange(freq) == freq < fmin \/ freq > fmax

\* C27 (SpecMask).  Every bin of the vocal fundamental band (80-300 Hz) has
\* been multiplied by a gain strictly smaller than the gain of every bin
\* outside the piano range (below 27.5 Hz or above 4186 Hz).
C27_VocalBandGain ==
    \A v \in MaskedBins : \A o \in MaskedBins :
        (VocalBand(fft_frequencies(v)) /\ OutsidePianoRange(fft_frequencies(o)))
            => stft_filtered[v + 1] < stft_filtered[o + 1]

\* C28 (Spec).  Consecutive notes of the frame loop have onsets at least
\* 100 ms apart, the later one starting no earlier than the end of the
\* earlier one, and when the segmenter has finished, the post-filtered
\* sequence is the sorted output of the frame loop: no note was dropped or
\* merged.
C28_PostFilterIdentity ==
    /\ pc \in {"loop", "done"} =>
          \A k \in 1 .. (Len(notes) - 1) :
              /\ notes[k + 1].time - notes[k].time >= min_note_duration
              /\ notes[k + 1].time >= notes[k].time + notes[k].duration
    /\ pc = "done" => filtered_notes = notes

\* two abutting notes of the same pitch, A of one octave, came out of the
\* frame loop and both are in the post-filtered sequence
C28_Witness ==
    /\ pc = "done"
    /\ Len(notes) = 2
    /\ notes[1].note_name = notes[2].note_name /\ notes[1].octave = notes[2].octave
    /\ notes[2].time = notes[1].time + notes[1].duration
    /\ Len(filtered_notes) = 2

\* C29 (SpecTool).  In every manifest process_audio_to_piano_sheet returns,
\* notes_count is at least 1 and is the number of note events of the MIDI
\* file; the events are those of the returned notes in the same order, with
\* non-decreasing onsets, and each carries the note number
\* 12 * (octave + 1) + p of its note, which the clamp to [24, 108] left as it
\* was.
C29_ManifestCountsEvents ==
    manifest # NoManifest =>
        /\ manifest.notes_count >= 1
        /\ manifest.notes_count = Len(midi_events)
        /\ Len(quantized_notes) = Len(midi_events)
        /\ \A k \in 1 .. Len(midi_events) :
              /\ k <= Len(quantized_notes)
              /\ midi_events[k].time = quantized_notes[k].time * tempo
              /\ midi_events[k].pitch =
                    12 * (quantized_notes[k].octave + 1)
                       + PitchClass(quantized_notes[k].note_name)
              /\ midi_events[k].pitch \in 24 .. 108
        /\ \A k \in 1 .. (Len(midi_events) - 1) :
              midi_events[k].time <= midi_events[k + 1].time

\* a manifest with notes_count 2 was returned for the recording of two
\* notes, and the MIDI file has two events, the second one later
C29_Witness ==
    /\ manifest # NoManifest
    /\ manifest.notes_count = 2
    /\ Len(midi_events) = 2
    /\ midi_events[1].time < midi_events[2].time
    /\ midi_events[1].pitch # midi_events[2].pitch

\* the step that ends the frame loop
Flushing == pc = "loop" /\ i = Len(f0) /\ pc' = "done"

\* the notes after the held note was closed at end_time under the 100 ms rule
FlushedAt(end_time) ==
    IF current_note = None THEN notes
    ELSE IF end_time - current_note.time >= min_note_duration
    THEN Append(notes, [current_note EXCEPT !.duration = end_time - current_note.time])
    ELSE notes

\* no two notes have the same onset
EmittedOnce(ns) == \A j \in 1 .. Len(ns) : \A k \in 1 .. Len(ns) :
                       ns[j].time = ns[k].time => j = k

====
